---- MODULE Spec2Model ----
(***************************************************************************)
(* A state-machine model of the SketchRNN session of src/SketchRNN/index.js *)
(* (constructor, generate, generateInternal, reset).  The magenta sketch   *)
(* model is an external collaborator: its primitives are modelled as the   *)
(* free term algebra over their arguments (a recurrent state is the trace  *)
(* of the vectors folded into it) and sample() as a nondeterministic       *)
(* choice.  Numbers with a fractional part are kept in hundredths          *)
(* (0.65 is 65, 3.0 is 300).                                               *)
(***************************************************************************)
EXTENDS Integers, Sequences, FiniteSets, TLC

\* Number of generate() calls issued on the session.
MaxCalls == 2

(***************************************************************************)
(* JavaScript values.                                                      *)
(***************************************************************************)
Undefined == [t |-> "undefined"]
NaN == [t |-> "NaN"]
Num(n) == [t |-> "number", v |-> n]
Str(s) == [t |-> "string", s |-> s]
Fn == [t |-> "function"]
Arr(seq) == [t |-> "array", elems |-> seq]
Obj(p) == [t |-> "object", props |-> p]

\* o.k : a missing property reads as undefined.
Prop(o, k) == IF o.t = "object" /\ k \in DOMAIN o.props THEN o.props[k] ELSE Undefined

\* ToBoolean(x), as used by ||, && and !.
Truthy(x) == x \notin {Undefined, NaN, Num(0), Str("")}

\* Unary plus: ToNumber(x) for the values options carry.
ToNumber(x) == IF x.t = "number" THEN x ELSE NaN

\* a || b
OrElse(a, b) == IF Truthy(a) THEN a ELSE b

(***************************************************************************)
(* this.defaults                                                           *)
(***************************************************************************)
DefaultTemperature == 65
DefaultPixelFactor == 300

(***************************************************************************)
(* The primitives of the external model, this.model.                      *)
(***************************************************************************)
Vec(dx, dy, down, up, end) == <<Num(dx), Num(dy), Num(down), Num(up), Num(end)>>

\* this.model.zeroInput()
ZeroInput == Vec(0, 0, 1, 0, 0)

\* this.model.zeroState()
ZeroState == [t |-> "state", trace |-> << >>]

\* this.model.update(x, s)
ModelUpdate(x, s) == [s EXCEPT !.trace = Append(@, x)]

\* this.model.updateStrokes(strokes, s): update folded over strokes, left to right.
RECURSIVE ModelUpdateStrokes(_, _)
ModelUpdateStrokes(strokes, s) ==
  IF strokes = << >> THEN s
  ELSE ModelUpdateStrokes(Tail(strokes), ModelUpdate(Head(strokes), s))

\* this.model.getPDF(s, temperature)
GetPDF(s, temperature) == [t |-> "pdf", state |-> s, temperature |-> temperature]

\* this.model.sample(pdf): the vectors a sample may yield.
SampleSpace == {Vec(5, -3, 1, 0, 0), Vec(2, 4, 0, 1, 0)}

(***************************************************************************)
(* The inputs of generate().                                               *)
(***************************************************************************)
StrokeA == Obj([dx |-> Num(1), dy |-> Num(2), pen |-> Str("down")])
StrokeB == Obj([dx |-> Num(-1), dy |-> Num(0)])
\* a seed stroke without dx
StrokeNoDx == Obj([dy |-> Num(3), pen |-> Str("up")])

EmptyOptions == Obj(<< >>)

GenerateArgs ==
  { <<Undefined, Undefined, Undefined>>,
    <<Fn, Undefined, Undefined>>,
    <<Arr(<<StrokeA>>), Fn, Undefined>>,
    <<EmptyOptions, Undefined, Undefined>>,
    <<Obj([temperature |-> Num(0)]), Fn, Undefined>>,
    <<Obj([pixelFactor |-> Num(0)]), Undefined, Undefined>>,
    <<Obj([temperature |-> Num(100), pixelFactor |-> Num(200)]), Arr(<<StrokeA, StrokeB>>), Undefined>>,
    <<EmptyOptions, Arr(<<StrokeB, StrokeA>>), Fn>>,
    <<EmptyOptions, Arr(<<StrokeNoDx>>), Undefined>>,
    <<Arr(<<StrokeB>>), Undefined, Undefined>>,
    <<Undefined, Arr(<<StrokeA>>), Fn>> }

(***************************************************************************)
(* State.                                                                  *)
(***************************************************************************)
VARIABLES
  ready,               \* this.ready: "pending", "resolved" or "rejected"
  initializeCalls,     \* number of this.model.initialize() calls made
  penState,            \* this.penState
  rnnState,            \* this.rnnState (Undefined until created)
  modelPixelFactor,    \* the pixel factor held by this.model
  setPixelFactorCalls, \* number of this.model.setPixelFactor() calls made
  penWriter,           \* who stored penState: 0 (constructor, reset) or a call
  calls,               \* the generate() calls issued, in order of issue
  other,               \* the fields of a second session, made by sketchRNN() too
  codecVec,            \* an internal 5-tuple handed to the decoder
  codecStroke,         \* a public stroke handed to the encoder
  decoded,             \* the decoding of codecVec, once computed
  encoded,             \* the encoding of codecStroke, once computed
  reEncoded,           \* the encoding of decoded, once computed
  reDecoded,           \* the decoding of encoded, once computed
  poseVideo,           \* PoseNet: this.video (Undefined without a video)
  detectionType,       \* PoseNet: this.detectionType
  net,                 \* PoseNet: this.net (Undefined until posenet.load resolves)
  loadPc,              \* PoseNet: where load() is
  poseReady,           \* PoseNet: this.ready
  estimations          \* PoseNet: the singlePose() / multiPose() invocations

sessionVars == <<ready, initializeCalls, penState, rnnState, modelPixelFactor,
                 setPixelFactorCalls, penWriter, calls>>

codecVars == <<codecVec, codecStroke, decoded, encoded, reEncoded, reDecoded>>

poseVars == <<poseVideo, detectionType, net, loadPc, poseReady, estimations>>

vars == <<sessionVars, other, codecVars, poseVars>>

CallIds == 1..Len(calls)

(***************************************************************************)
(* generate(): overload resolution and stroke encoding.                    *)
(***************************************************************************)
\* A mutant of ResolveArgs: the options and the seed are passed on as given,
\* without the "|| {}" and "|| []" fallbacks.
ResolveArgs_NoFallback(a1, a2, a3) ==
  IF a1.t = "function"
    THEN [options |-> EmptyOptions, seedStrokes |-> Arr(<< >>), callback |-> a1]
  ELSE IF a1.t = "array"
    THEN [options |-> EmptyOptions, seedStrokes |-> a1, callback |-> a2]
  ELSE IF a2.t = "function"
    THEN [options |-> a1, seedStrokes |-> Arr(<< >>), callback |-> a2]
  ELSE [options |-> a1, seedStrokes |-> OrElse(a2, Arr(<< >>)), callback |-> a3]

ResolveArgs(a1, a2, a3) ==
  IF a1.t = "function"
    THEN [options |-> EmptyOptions, seedStrokes |-> Arr(<< >>), callback |-> a1]
  ELSE IF a1.t = "array"
    THEN [options |-> EmptyOptions, seedStrokes |-> a1, callback |-> a2]
  ELSE IF a2.t = "function"
    THEN [options |-> OrElse(a1, EmptyOptions), seedStrokes |-> Arr(<< >>), callback |-> a2]
  ELSE [options |-> OrElse(a1, EmptyOptions), seedStrokes |-> OrElse(a2, Arr(<< >>)), callback |-> a3]

\* A mutant of Encode: the down and up flags change places in the vector.
Encode_UpBeforeDown(s) ==
  LET up == IF Prop(s, "pen") = Str("up") THEN 1 ELSE 0
      down == IF Prop(s, "pen") = Str("down") THEN 1 ELSE 0
      end == IF Prop(s, "pen") = Str("end") THEN 1 ELSE 0
  IN <<Prop(s, "dx"), Prop(s, "dy"), Num(up), Num(down), Num(end)>>

Encode(s) ==
  LET up == IF Prop(s, "pen") = Str("up") THEN 1 ELSE 0
      down == IF Prop(s, "pen") = Str("down") THEN 1 ELSE 0
      end == IF Prop(s, "pen") = Str("end") THEN 1 ELSE 0
  IN <<Prop(s, "dx"), Prop(s, "dy"), Num(down), Num(up), Num(end)>>

\* A mutant of EncodeStrokes: the strokes come out in reverse order.
EncodeStrokes_Reversed(seq) == [k \in 1..Len(seq) |-> Encode(seq[Len(seq) + 1 - k])]

\* seedStrokes.map(...)
EncodeStrokes(seq) == [k \in 1..Len(seq) |-> Encode(seq[k])]

(***************************************************************************)
(* generateInternal(): option resolution and decoding.                     *)
(***************************************************************************)
\* A mutant of ResolveTemperature: the test is "is defined", not "is truthy".
ResolveTemperature_IfDefined(options) ==
  IF Prop(options, "temperature") # Undefined
    THEN ToNumber(Prop(options, "temperature"))
    ELSE Num(DefaultTemperature)

ResolveTemperature(options) ==
  OrElse(ToNumber(Prop(options, "temperature")), Num(DefaultTemperature))

ResolvePixelFactor(options) ==
  OrElse(ToNumber(Prop(options, "pixelFactor")), Num(DefaultPixelFactor))

\* A mutant of Decode: the up flag is tested before the down flag.
Decode_UpFirst(pen) ==
  IF pen[4] = Num(1) THEN Obj([dx |-> pen[1], dy |-> pen[2], pen |-> Str("up")])
  ELSE IF pen[3] = Num(1) THEN Obj([dx |-> pen[1], dy |-> pen[2], pen |-> Str("down")])
  ELSE IF pen[5] = Num(1) THEN Obj([dx |-> pen[1], dy |-> pen[2], pen |-> Str("end")])
  ELSE Obj([dx |-> pen[1], dy |-> pen[2]])

Decode(pen) ==
  IF pen[3] = Num(1) THEN Obj([dx |-> pen[1], dy |-> pen[2], pen |-> Str("down")])
  ELSE IF pen[4] = Num(1) THEN Obj([dx |-> pen[1], dy |-> pen[2], pen |-> Str("up")])
  ELSE IF pen[5] = Num(1) THEN Obj([dx |-> pen[1], dy |-> pen[2], pen |-> Str("end")])
  ELSE Obj([dx |-> pen[1], dy |-> pen[2]])

(***************************************************************************)
(* Scheduling.  A call is suspended only at its readiness await; from the  *)
(* resumption to the return it runs to completion, and no other handler    *)
(* runs meanwhile.                                                         *)
(***************************************************************************)
\* A mutant of Suspended: a second await, in front of this.model.update.
Suspended_BeforeUpdate(pc) == pc \in {"awaitReady", "update"}

Suspended(pc) == pc = "awaitReady"

Settled(pc) == pc \in {"done", "failed"}

Running(pc) == ~Settled(pc) /\ ~Suspended(pc)

\* No call other than i is in the middle of its synchronous run.
OthersParked(i) == \A j \in CallIds : j # i => ~Running(calls[j].pc)

\* A mutant of FirstAwaiting: any awaiting call may be resumed next.
FirstAwaiting_Any(i) == calls[i].pc = "awaitReady"

\* The promise reactions of this.ready run in the order they were registered.
FirstAwaiting(i) ==
  /\ calls[i].pc = "awaitReady"
  /\ \A j \in 1..(i - 1) : calls[j].pc # "awaitReady"

(***************************************************************************)
(* Constructor.                                                            *)
(***************************************************************************)
SessionInit ==
  /\ ready = "pending"
  /\ initializeCalls = 1
  /\ penState = ZeroInput
  /\ rnnState = Undefined
  /\ modelPixelFactor = Undefined
  /\ setPixelFactorCalls = 0
  /\ penWriter = 0
  /\ calls = << >>

\* No stroke is in the codec's hands.
CodecIdle ==
  /\ codecVec = ZeroInput
  /\ codecStroke = StrokeA
  /\ decoded = Undefined
  /\ encoded = Undefined
  /\ reEncoded = Undefined
  /\ reDecoded = Undefined

\* The fields of a session as the constructor leaves them.
NewSession ==
  [ready |-> "pending",
   initializeCalls |-> 1,
   penState |-> ZeroInput,
   rnnState |-> Undefined,
   modelPixelFactor |-> Undefined,
   setPixelFactorCalls |-> 0,
   penWriter |-> 0,
   calls |-> << >>]

\* A PoseNet made without a video and without a detection type.
PoseIdle ==
  /\ poseVideo = Undefined
  /\ detectionType = Str("multiple")
  /\ net = Undefined
  /\ loadPc = "loadingNet"
  /\ poseReady = "pending"
  /\ estimations = << >>

Init == SessionInit /\ other = NewSession /\ CodecIdle /\ PoseIdle

\* callCallback(promise, callback) hands back the promise it is given.
CallCallback(promise) == promise

\* this.model.initialize() settles; this.ready settles with it.
LoadSucceeds ==
  /\ ready = "pending"
  /\ OthersParked(0)
  /\ ready' = CallCallback("resolved")
  /\ UNCHANGED <<initializeCalls, penState, rnnState, modelPixelFactor,
                 setPixelFactorCalls, penWriter, calls>>

LoadFails ==
  /\ ready = "pending"
  /\ OthersParked(0)
  /\ ready' = CallCallback("rejected")
  /\ UNCHANGED <<initializeCalls, penState, rnnState, modelPixelFactor,
                 setPixelFactorCalls, penWriter, calls>>

(***************************************************************************)
(* generate(a1, a2, a3), up to the await of generateInternal.              *)
(***************************************************************************)
NewCall(a1, a2, a3) ==
  LET r == ResolveArgs(a1, a2, a3)
  IN [args |-> <<a1, a2, a3>>,
      options |-> r.options,
      seedStrokes |-> r.seedStrokes.elems,
      callback |-> r.callback,
      strokes |-> EncodeStrokes(r.seedStrokes.elems),
      temperature |-> ResolveTemperature(r.options),
      pixelFactor |-> ResolvePixelFactor(r.options),
      pc |-> "awaitReady",
      overlaps |-> \E j \in CallIds : ~Settled(calls[j].pc),
      ops |-> << >>,
      created |-> FALSE,
      pred |-> 0,
      rnnIn |-> Undefined,
      penIn |-> Undefined,
      pdf |-> Undefined,
      sampled |-> Undefined,
      result |-> Undefined]

Generate(a1, a2, a3) ==
  /\ Len(calls) + Len(other.calls) < MaxCalls
  /\ OthersParked(0)
  /\ calls' = Append(calls, NewCall(a1, a2, a3))
  /\ UNCHANGED <<ready, initializeCalls, penState, rnnState, modelPixelFactor,
                 setPixelFactorCalls, penWriter>>

(***************************************************************************)
(* generateInternal() after the await.                                     *)
(***************************************************************************)
\* await this.ready throws: the call rejects.
AwaitRejected(i) ==
  /\ ready = "rejected"
  /\ FirstAwaiting(i)
  /\ OthersParked(i)
  /\ calls' = [calls EXCEPT ![i].pc = "failed"]
  /\ UNCHANGED <<ready, initializeCalls, penState, rnnState, modelPixelFactor,
                 setPixelFactorCalls, penWriter>>

\* A mutant of NeedsState: a zeroed state is taken for a missing one.
NeedsState_OrZero(s) == ~Truthy(s) \/ s = ZeroState

\* if (!this.rnnState)
NeedsState(s) == ~Truthy(s)

\* A mutant of AwaitReturns: a failed load is swallowed and the call goes on.
AwaitReturns_Settled(r) == r # "pending"

\* await this.ready returns a value only when the promise is fulfilled.
AwaitReturns(r) == r = "resolved"

\* await this.ready returns; lazy creation of rnnState.
AwaitResolved(i) ==
  /\ AwaitReturns(ready)
  /\ FirstAwaiting(i)
  /\ OthersParked(i)
  /\ IF NeedsState(rnnState)
       THEN /\ rnnState' = ZeroState
            /\ modelPixelFactor' = calls[i].pixelFactor
            /\ setPixelFactorCalls' = setPixelFactorCalls + 1
            /\ calls' = [calls EXCEPT ![i].pc = "seed",
                                      ![i].pred = penWriter,
                                      ![i].created = TRUE,
                                      ![i].ops = <<"zeroState", "setPixelFactor">>]
       ELSE /\ calls' = [calls EXCEPT ![i].pc = "seed", ![i].pred = penWriter]
            /\ UNCHANGED <<rnnState, modelPixelFactor, setPixelFactorCalls>>
  /\ UNCHANGED <<ready, initializeCalls, penState, penWriter>>

\* if (Array.isArray(strokes) && strokes.length) updateStrokes
SeedStep(i) ==
  /\ calls[i].pc = "seed"
  /\ OthersParked(i)
  /\ IF Len(calls[i].strokes) # 0
       THEN /\ rnnState' = ModelUpdateStrokes(calls[i].strokes, rnnState)
            /\ calls' = [calls EXCEPT ![i].pc = "update",
                                      ![i].ops = Append(@, "updateStrokes")]
       ELSE /\ calls' = [calls EXCEPT ![i].pc = "update"]
            /\ UNCHANGED rnnState
  /\ UNCHANGED <<ready, initializeCalls, penState, modelPixelFactor,
                 setPixelFactorCalls, penWriter>>

\* A mutant of UpdateInput: after seeding, the last seed stroke is fed again.
UpdateInput_LastSeed(i) ==
  IF Len(calls[i].strokes) # 0 THEN calls[i].strokes[Len(calls[i].strokes)] ELSE penState

\* The vector handed to this.model.update.
UpdateInput(i) == penState

UpdateStep(i) ==
  /\ calls[i].pc = "update"
  /\ OthersParked(i)
  /\ rnnState' = ModelUpdate(UpdateInput(i), rnnState)
  /\ calls' = [calls EXCEPT ![i].pc = "pdf",
                            ![i].rnnIn = rnnState,
                            ![i].penIn = UpdateInput(i),
                            ![i].ops = Append(@, "update")]
  /\ UNCHANGED <<ready, initializeCalls, penState, modelPixelFactor,
                 setPixelFactorCalls, penWriter>>

PdfStep(i) ==
  /\ calls[i].pc = "pdf"
  /\ OthersParked(i)
  /\ calls' = [calls EXCEPT ![i].pc = "sample",
                            ![i].pdf = GetPDF(rnnState, calls[i].temperature),
                            ![i].ops = Append(@, "getPDF")]
  /\ UNCHANGED <<ready, initializeCalls, penState, rnnState, modelPixelFactor,
                 setPixelFactorCalls, penWriter>>

SampleStep(i) ==
  /\ calls[i].pc = "sample"
  /\ OthersParked(i)
  /\ \E v \in SampleSpace :
       /\ penState' = v
       /\ calls' = [calls EXCEPT ![i].pc = "done",
                                 ![i].sampled = v,
                                 ![i].result = Decode(v),
                                 ![i].ops = Append(@, "sample")]
  /\ penWriter' = i
  /\ UNCHANGED <<ready, initializeCalls, rnnState, modelPixelFactor,
                 setPixelFactorCalls>>

(***************************************************************************)
(* reset()                                                                 *)
(***************************************************************************)
\* Mutants of ResetRnn: the state is dropped, always created, or left as it is.
ResetRnn_Drop(s) == Undefined
ResetRnn_Always(s) == ZeroState
ResetRnn_Keep(s) == s

ResetRnn(s) == IF Truthy(s) THEN ZeroState ELSE s

\* A mutant of Reset: reset() waits for the model to be ready.
Reset_AwaitsReady ==
  /\ OthersParked(0)
  /\ ready = "resolved"
  /\ penState' = ZeroInput
  /\ rnnState' = ResetRnn(rnnState)
  /\ penWriter' = 0
  /\ UNCHANGED <<ready, initializeCalls, modelPixelFactor, setPixelFactorCalls,
                 calls>>

Reset ==
  /\ OthersParked(0)
  /\ penState' = ZeroInput
  /\ rnnState' = ResetRnn(rnnState)
  /\ penWriter' = 0
  /\ UNCHANGED <<ready, initializeCalls, modelPixelFactor, setPixelFactorCalls,
                 calls>>

\* A mutant of OtherSessionAfter: the sessions share one model object, so a
\* pixel factor set through one session is the other session's too.
OtherSessionAfter_SharedModel(o, mine) ==
  [o EXCEPT !.modelPixelFactor = mine.modelPixelFactor]

\* The fields of the other session after a method of this session has run,
\* "mine" being the fields this session has then: the constructor makes
\* this.model, this.penState and this.ready anew for each session and the
\* methods assign only to fields of this.
OtherSessionAfter(o, mine) == o

\* What a method of the session leaves alone.
SessionFrame ==
  /\ other' = OtherSessionAfter(other, [penState |-> penState',
                                         rnnState |-> rnnState',
                                         modelPixelFactor |-> modelPixelFactor'])
  /\ UNCHANGED <<codecVars, poseVars>>

Next ==
  \/ LoadSucceeds /\ SessionFrame
  \/ LoadFails /\ SessionFrame
  \/ \E a \in GenerateArgs : Generate(a[1], a[2], a[3]) /\ SessionFrame
  \/ \E i \in CallIds : AwaitRejected(i) /\ SessionFrame
  \/ \E i \in CallIds : AwaitResolved(i) /\ SessionFrame
  \/ \E i \in CallIds : SeedStep(i) /\ SessionFrame
  \/ \E i \in CallIds : UpdateStep(i) /\ SessionFrame
  \/ \E i \in CallIds : PdfStep(i) /\ SessionFrame
  \/ \E i \in CallIds : SampleStep(i) /\ SessionFrame
  \/ Reset /\ SessionFrame

Spec == Init /\ [][Next]_vars

(***************************************************************************)
(* Two sessions.  The methods above run on the session in the variables;   *)
(* Switch makes the other session the one the next methods are called on.  *)
(***************************************************************************)
ThisSession ==
  [ready |-> ready,
   initializeCalls |-> initializeCalls,
   penState |-> penState,
   rnnState |-> rnnState,
   modelPixelFactor |-> modelPixelFactor,
   setPixelFactorCalls |-> setPixelFactorCalls,
   penWriter |-> penWriter,
   calls |-> calls]

Switch ==
  /\ OthersParked(0)
  /\ other # ThisSession
  /\ ready' = other.ready
  /\ initializeCalls' = other.initializeCalls
  /\ penState' = other.penState
  /\ rnnState' = other.rnnState
  /\ modelPixelFactor' = other.modelPixelFactor
  /\ setPixelFactorCalls' = other.setPixelFactorCalls
  /\ penWriter' = other.penWriter
  /\ calls' = other.calls
  /\ other' = ThisSession
  /\ UNCHANGED <<codecVars, poseVars>>

\* The generate() arguments used with two sessions.
PairArgs ==
  { <<EmptyOptions, Undefined, Undefined>>,
    <<Obj([temperature |-> Num(100), pixelFactor |-> Num(200)]), Arr(<<StrokeA, StrokeB>>), Undefined>> }

PairNext ==
  \/ LoadSucceeds /\ SessionFrame
  \/ LoadFails /\ SessionFrame
  \/ \E a \in PairArgs : Generate(a[1], a[2], a[3]) /\ SessionFrame
  \/ \E i \in CallIds : AwaitRejected(i) /\ SessionFrame
  \/ \E i \in CallIds : AwaitResolved(i) /\ SessionFrame
  \/ \E i \in CallIds : SeedStep(i) /\ SessionFrame
  \/ \E i \in CallIds : UpdateStep(i) /\ SessionFrame
  \/ \E i \in CallIds : PdfStep(i) /\ SessionFrame
  \/ \E i \in CallIds : SampleStep(i) /\ SessionFrame
  \/ Reset /\ SessionFrame
  \/ Switch

PairSpec == Init /\ [][PairNext]_vars

(***************************************************************************)
(* The stroke codec on its own: the two mappings of generate() (encode)    *)
(* and generateInternal() (decode), applied to strokes and vectors drawn   *)
(* from small sets, and to each other's results.                           *)
(***************************************************************************)
CodecCoords == {-1, 2}
CodecFlags == {0, 1}
CodecPens == {"down", "up", "end"}

CodecVectors ==
  {Vec(x, y, d, u, e) : x \in CodecCoords, y \in CodecCoords,
                        d \in CodecFlags, u \in CodecFlags, e \in CodecFlags}

CodecStrokes ==
  {Obj([dx |-> Num(x), dy |-> Num(y), pen |-> Str(p)]) :
     x \in CodecCoords, y \in CodecCoords, p \in CodecPens}
  \cup {Obj([dx |-> Num(x), dy |-> Num(y)]) : x \in CodecCoords, y \in CodecCoords}

CodecInit ==
  /\ SessionInit
  /\ other = NewSession
  /\ PoseIdle
  /\ codecVec \in CodecVectors
  /\ codecStroke \in CodecStrokes
  /\ decoded = Undefined
  /\ encoded = Undefined
  /\ reEncoded = Undefined
  /\ reDecoded = Undefined

DecodeVector ==
  /\ decoded = Undefined
  /\ decoded' = Decode(codecVec)
  /\ UNCHANGED <<sessionVars, other, poseVars, codecVec, codecStroke, encoded, reEncoded, reDecoded>>

EncodeStroke ==
  /\ encoded = Undefined
  /\ encoded' = Encode(codecStroke)
  /\ UNCHANGED <<sessionVars, other, poseVars, codecVec, codecStroke, decoded, reEncoded, reDecoded>>

EncodeDecoded ==
  /\ decoded # Undefined
  /\ reEncoded = Undefined
  /\ reEncoded' = Encode(decoded)
  /\ UNCHANGED <<sessionVars, other, poseVars, codecVec, codecStroke, decoded, encoded, reDecoded>>

DecodeEncoded ==
  /\ encoded # Undefined
  /\ reDecoded = Undefined
  /\ reDecoded' = Decode(encoded)
  /\ UNCHANGED <<sessionVars, other, poseVars, codecVec, codecStroke, decoded, encoded, reEncoded>>

CodecNext ==
  \/ DecodeVector
  \/ EncodeStroke
  \/ EncodeDecoded
  \/ DecodeEncoded

CodecSpec == CodecInit /\ [][CodecNext]_vars

(***************************************************************************)
(* Properties.                                                             *)
(***************************************************************************)
\* The call has got past its readiness await.
PastAwait(i) == calls[i].pc \notin {"awaitReady", "failed"}

\* C1 (as amended): penState is defined in every state; recurrentState is
\* absent exactly as long as no generate() call has got past its readiness
\* await, and once it is defined no step makes it absent again.
C1_LazyStateOneWay ==
  /\ [](/\ penState # Undefined
        /\ Len(penState) = 5
        /\ (rnnState = Undefined) <=> (\A i \in CallIds : ~PastAwait(i)))
  /\ [][rnnState # Undefined => rnnState' # Undefined]_vars

\* C1, witness: a session that generated a stroke and was then reset.
C1_Witness ==
  \E i \in CallIds : calls[i].pc = "done" /\ penWriter = 0 /\ rnnState # Undefined

\* C1 as stated: recurrentState is absent before the first generation call
\* and defined at every point after it, a point after it being taken as late
\* as possible, once some generate() call has settled.
C1_Original ==
  /\ penState # Undefined
  /\ (calls = << >> => rnnState = Undefined)
  /\ ((\E i \in CallIds : Settled(calls[i].pc)) => rnnState # Undefined)

\* C2: reset() sets penState to the zero vector, replaces an existing
\* recurrentState by a fresh zero state, leaves an absent one absent, and
\* does not touch the pixel factor of the model.
C2_ResetEffect ==
  [][Reset =>
       /\ penState' = ZeroInput
       /\ (rnnState # Undefined => rnnState' = ZeroState)
       /\ (rnnState = Undefined => rnnState' = Undefined)
       /\ modelPixelFactor' = modelPixelFactor
       /\ setPixelFactorCalls' = setPixelFactorCalls]_vars

\* C2, witness: a reset has zeroed both states of a session whose model
\* keeps the pixel factor 2.0 of the first call.
C2_Witness ==
  /\ \E i \in CallIds : calls[i].pc = "done"
  /\ penWriter = 0
  /\ penState = ZeroInput
  /\ rnnState = ZeroState
  /\ modelPixelFactor = Num(200)

\* C3: the pixel factor is applied to the model exactly once, by the call
\* that creates recurrentState (the first to get past the await) and with
\* that call's resolved value; no later call and no reset applies it again.
C3_PixelFactorOnce ==
  /\ rnnState = Undefined => setPixelFactorCalls = 0 /\ modelPixelFactor = Undefined
  /\ rnnState # Undefined =>
       /\ setPixelFactorCalls = 1
       /\ calls[1].created
       /\ modelPixelFactor = calls[1].pixelFactor
       /\ \A j \in CallIds : j # 1 => ~calls[j].created

\* C3, witness: a second call with another pixelFactor option has completed
\* after a reset, and the model still holds the first call's pixel factor.
C3_Witness ==
  /\ Len(calls) >= 2
  /\ calls[1].pc = "done"
  /\ calls[2].pc = "done"
  /\ calls[2].pred = 0
  /\ calls[2].pixelFactor # calls[1].pixelFactor
  /\ modelPixelFactor = calls[1].pixelFactor

\* C4: option resolution is truthy-based.  An absent temperature or
\* pixelFactor and a supplied 0 both resolve to the default (0.65, 3.0), a
\* supplied non-zero number is used unchanged, and the model is asked for a
\* distribution at the resolved temperature, which is never 0.
C4_TruthyOptions ==
  \A i \in CallIds :
    LET t == Prop(calls[i].options, "temperature")
        p == Prop(calls[i].options, "pixelFactor")
    IN /\ t \in {Undefined, Num(0)} => calls[i].temperature = Num(65)
       /\ p \in {Undefined, Num(0)} => calls[i].pixelFactor = Num(300)
       /\ (t.t = "number" /\ t # Num(0)) => calls[i].temperature = t
       /\ (p.t = "number" /\ p # Num(0)) => calls[i].pixelFactor = p
       /\ calls[i].pdf # Undefined =>
            /\ calls[i].pdf.temperature = calls[i].temperature
            /\ calls[i].pdf.temperature # Num(0)

\* C4, witness: generate({temperature: 0}) has completed and the distribution
\* was computed at 0.65.
C4_Witness ==
  \E i \in CallIds :
    /\ calls[i].pc = "done"
    /\ Prop(calls[i].options, "temperature") = Num(0)
    /\ calls[i].pdf.temperature = Num(65)

\* The model primitives a call that got past readiness invokes, in order.
ExpectedOps(i) ==
  (IF calls[i].created THEN <<"zeroState", "setPixelFactor">> ELSE << >>)
  \o (IF Len(calls[i].seedStrokes) > 0 THEN <<"updateStrokes">> ELSE << >>)
  \o <<"update", "getPDF", "sample">>

IsPrefix(a, b) == Len(a) <= Len(b) /\ a = SubSeq(b, 1, Len(a))

\* C5: a generate() call that gets past readiness invokes, in this order,
\* the lazy creation (first call only), the seed fold (non-empty seed only),
\* one update fed with the penState the previous call stored (the zero vector
\* if none did, or after a reset), one distribution at the resolved
\* temperature and one sample, which becomes penState and, decoded, the one
\* stroke returned.
C5_StepOrder ==
  \A i \in CallIds :
    /\ IsPrefix(calls[i].ops, ExpectedOps(i))
    /\ calls[i].created => \A j \in 1..(i - 1) : ~PastAwait(j)
    /\ calls[i].pc \in {"pdf", "sample", "done"} =>
         calls[i].penIn = (IF calls[i].pred = 0 THEN ZeroInput
                           ELSE calls[calls[i].pred].sampled)
    /\ calls[i].pc \in {"sample", "done"} =>
         calls[i].pdf = GetPDF(ModelUpdate(calls[i].penIn, calls[i].rnnIn),
                               calls[i].temperature)
    /\ calls[i].pc = "done" =>
         /\ calls[i].ops = ExpectedOps(i)
         /\ calls[i].sampled \in SampleSpace
         /\ Prop(calls[i].result, "dx") = calls[i].sampled[1]
         /\ Prop(calls[i].result, "dy") = calls[i].sampled[2]
         /\ penWriter = i => penState = calls[i].sampled

\* C5, witness: a call seeded with two strokes has completed on a session
\* whose penState was stored by the call before it.
C5_Witness ==
  \E i \in CallIds :
    /\ calls[i].pc = "done"
    /\ Len(calls[i].seedStrokes) = 2
    /\ calls[i].pred # 0
    /\ calls[i].penIn = calls[calls[i].pred].sampled

\* C6: the seeding step appends the encoded seed strokes to recurrentState
\* in the order given, before the pen update of the same call, and leaves
\* penState unchanged; with an empty seed it leaves recurrentState unchanged.
C6_SeedingFrame ==
  [][\A i \in CallIds :
       SeedStep(i) =>
         LET seed == calls[i].seedStrokes
         IN /\ penState' = penState
            /\ rnnState' = [rnnState EXCEPT
                 !.trace = @ \o [k \in 1..Len(seed) |-> Encode(seed[k])]]
            /\ Len(seed) = 0 => rnnState' = rnnState
            /\ \A k \in 1..Len(calls'[i].ops) :
                 calls'[i].ops[k] \notin {"update", "getPDF", "sample"}]_vars

\* C6, witness: two seed strokes have just been folded into the state of a
\* session that had generated before, and the pen update is still to come.
C6_Witness ==
  \E i \in CallIds :
    /\ calls[i].pc = "update"
    /\ Len(calls[i].seedStrokes) = 2
    /\ Len(rnnState.trace) > 2
    /\ penState \in SampleSpace

\* The call is between the start of step 4 and the end of step 7.
Stepping(i) == calls[i].pc \in {"seed", "update", "pdf", "sample"}

\* C7: while a call is between the start of its seed fold and the end of its
\* sample, every step of the session is that call's own next step: no other
\* generate() is issued or resumed, no reset() runs and the load does not
\* settle, so nothing else reads or writes penState or recurrentState.
C7_StepsUninterrupted ==
  [][\A i \in CallIds :
       Stepping(i) =>
         /\ calls'[i].pc # calls[i].pc
         /\ Len(calls') = Len(calls)
         /\ \A j \in CallIds : j # i => calls'[j] = calls[j]
         /\ ready' = ready
         /\ penWriter' \in {penWriter, i}]_vars

\* C7, witness: a call is in the middle of its steps while another call is
\* awaiting a readiness that is already resolved.
C7_Witness ==
  \E i, j \in CallIds :
    /\ calls[i].pc = "update"
    /\ calls[j].pc = "awaitReady"
    /\ ready = "resolved"

\* C8: after a failed load no call gets past its readiness await: no call
\* creates recurrentState, changes penState, applies a pixel factor or
\* invokes a model primitive; the load was started once, at construction,
\* and the failure is final.
C8_LoadFailure ==
  /\ [](/\ initializeCalls = 1
        /\ ready = "rejected" =>
             /\ rnnState = Undefined
             /\ penState = ZeroInput
             /\ modelPixelFactor = Undefined
             /\ setPixelFactorCalls = 0
             /\ \A i \in CallIds :
                  /\ ~PastAwait(i)
                  /\ calls[i].ops = << >>
                  /\ calls[i].result = Undefined)
  /\ [][ready = "rejected" => ready' = "rejected"]_vars

\* C8, witness: the load has failed, one call has failed at its await and a
\* later call is still awaiting.
C8_Witness ==
  /\ ready = "rejected"
  /\ \E i, j \in CallIds : calls[i].pc = "failed" /\ calls[j].pc = "awaitReady"

\* The seed of the call holds a stroke without dx or dy.
MalformedSeed(i) ==
  \E k \in 1..Len(calls[i].seedStrokes) :
    \/ Prop(calls[i].seedStrokes[k], "dx") = Undefined
    \/ Prop(calls[i].seedStrokes[k], "dy") = Undefined

\* C9 as stated: a call whose seed holds a malformed stroke performs no
\* model update and no sample, and does not complete with a stroke.
C9_MalformedSeedFailsFast ==
  \A i \in CallIds :
    MalformedSeed(i) =>
      /\ calls[i].pc # "done"
      /\ \A k \in 1..Len(calls[i].ops) :
           calls[i].ops[k] \notin {"updateStrokes", "update", "sample"}

\* C10: a generate({}) that finds the penState of the constructor or of a
\* reset feeds the model the zero pen vector, the zero recurrent state and
\* temperature 0.65, whether the session is new or has generated before.
C10_ResetThenGenerate ==
  \A i \in CallIds :
    (/\ calls[i].pc \in {"sample", "done"}
     /\ calls[i].options = EmptyOptions
     /\ calls[i].seedStrokes = << >>
     /\ calls[i].pred = 0) =>
       /\ calls[i].penIn = ZeroInput
       /\ calls[i].rnnIn = ZeroState
       /\ calls[i].pdf = GetPDF(ModelUpdate(ZeroInput, ZeroState), Num(65))

\* C10, witness: generate({}) has completed after a reset on a session that
\* an earlier seeded call had advanced.
C10_Witness ==
  \E i \in CallIds :
    /\ i > 1
    /\ calls[i].pc = "done"
    /\ calls[i].options = EmptyOptions
    /\ calls[i].seedStrokes = << >>
    /\ calls[i].pred = 0
    /\ ~calls[i].created
    /\ calls[1].pc = "done"
    /\ Len(calls[1].seedStrokes) > 0

\* C11: reset() can run whenever no call is in the middle of its synchronous
\* run, whatever the state of the load; it settles no promise and touches no
\* call, and the state it leaves is one a second reset() leaves unchanged.
C11_ResetIdempotentAnytime ==
  /\ [](OthersParked(0) => ENABLED Reset)
  /\ [][Reset =>
          /\ ready' = ready
          /\ calls' = calls
          /\ penState' = ZeroInput
          /\ rnnState' \in {Undefined, ZeroState}
          /\ ResetRnn(rnnState') = rnnState'
          /\ (rnnState' = Undefined) <=> (rnnState = Undefined)]_vars

\* C11, witness: a reset has run after a completed call while a later call
\* was still awaiting readiness.
C11_Witness ==
  \E i, j \in CallIds :
    /\ calls[i].pc = "done"
    /\ calls[j].pc = "awaitReady"
    /\ penWriter = 0
    /\ rnnState = ZeroState

\* C14: generate() resolves (completionFn) to empty options and an empty
\* seed, (seedArray, completionFn?) to empty options and that seed,
\* (options, completionFn) to those options and an empty seed, and
\* (options, seedArray, completionFn?) to those options and that seed; an
\* absent options value becomes {} and an absent seed the empty sequence, so
\* generateInternal always receives an options object and an array.
C14_Overloads ==
  \A i \in CallIds :
    LET a == calls[i].args
        c == calls[i]
        given == IF a[1] = Undefined THEN EmptyOptions ELSE a[1]
    IN /\ a[1].t = "function" =>
            c.options = EmptyOptions /\ c.seedStrokes = << >> /\ c.callback = a[1]
       /\ a[1].t = "array" =>
            c.options = EmptyOptions /\ c.seedStrokes = a[1].elems /\ c.callback = a[2]
       /\ (a[1].t \in {"object", "undefined"} /\ a[2].t = "function") =>
            c.options = given /\ c.seedStrokes = << >> /\ c.callback = a[2]
       /\ (a[1].t \in {"object", "undefined"} /\ a[2].t = "array") =>
            c.options = given /\ c.seedStrokes = a[2].elems /\ c.callback = a[3]
       /\ (a[1].t \in {"object", "undefined"} /\ a[2].t = "undefined") =>
            c.options = given /\ c.seedStrokes = << >> /\ c.callback = a[3]
       /\ c.options.t = "object"
       /\ DOMAIN c.strokes = 1..Len(c.seedStrokes)

\* C14, witness: generate(undefined, [stroke], completionFn) has run with
\* the options {} and its one seed stroke.
C14_Witness ==
  \E i \in CallIds :
    /\ calls[i].args[1] = Undefined
    /\ calls[i].args[2].t = "array"
    /\ calls[i].args[3] = Fn
    /\ calls[i].options = EmptyOptions
    /\ Len(calls[i].strokes) = 1
    /\ calls[i].pc = "done"

\* The recurrent-state trace that calls 1..j leave when each is made after
\* the one before it has returned, on a session that is never reset.
RECURSIVE SequentialTrace(_)
SequentialTrace(j) ==
  IF j = 0 THEN << >>
  ELSE SequentialTrace(j - 1)
       \o calls[j].strokes
       \o << IF j = 1 THEN ZeroInput ELSE calls[j - 1].sampled >>

Occurrences(seq, x) == Cardinality({k \in 1..Len(seq) : seq[k] = x})

\* C17: overlapping generate() calls run their steps one after another in
\* the order of issue: a call gets past its await only when every earlier
\* call has completed; with no reset in between, the calls leave the
\* penState and recurrentState that the same calls made one after another
\* leave, each with one update and one sample, and only the first call
\* creates recurrentState and applies its pixel factor.
C17_OverlappingCallsSerialised ==
  /\ \A i, j \in CallIds : (i < j /\ PastAwait(j)) => calls[i].pc = "done"
  /\ \A j \in CallIds :
       (/\ \A i \in 1..j : calls[i].pc = "done"
        /\ calls[1].pred = 0
        /\ \A i \in 2..j : calls[i].pred = i - 1
        /\ penWriter = j
        /\ j = Len(calls) \/ ~PastAwait(j + 1)) =>
          /\ rnnState.trace = SequentialTrace(j)
          /\ penState = calls[j].sampled
          /\ \A i \in 1..j :
               /\ Occurrences(calls[i].ops, "update") = 1
               /\ Occurrences(calls[i].ops, "sample") = 1
               /\ calls[i].created <=> (i = 1)
          /\ setPixelFactorCalls = 1
          /\ modelPixelFactor = calls[1].pixelFactor

\* C17, witness: two calls, the second issued while the first was awaiting
\* readiness, have both completed, the second with another pixelFactor
\* option than the first.
C17_Witness ==
  /\ Len(calls) >= 2
  /\ calls[2].overlaps
  /\ calls[1].pc = "done"
  /\ calls[2].pc = "done"
  /\ calls[2].pred = 1
  /\ penWriter = 2
  /\ calls[2].pixelFactor # calls[1].pixelFactor

\* The number of the three pen flags of a vector that are 1.
FlagsSet(v) == Cardinality({k \in 3..5 : v[k] = Num(1)})

\* C12: decoding sets dx and dy to the first two entries and chooses pen by
\* the priority down > up > end; a vector with down and up both 1 decodes
\* to pen "down", and one with no flag at 1 to a stroke without pen field.
C12_DecodePriority ==
  decoded # Undefined =>
    /\ Prop(decoded, "dx") = codecVec[1]
    /\ Prop(decoded, "dy") = codecVec[2]
    /\ codecVec[3] = Num(1) => Prop(decoded, "pen") = Str("down")
    /\ (codecVec[3] # Num(1) /\ codecVec[4] = Num(1)) => Prop(decoded, "pen") = Str("up")
    /\ (codecVec[3] # Num(1) /\ codecVec[4] # Num(1) /\ codecVec[5] = Num(1)) =>
         Prop(decoded, "pen") = Str("end")
    /\ FlagsSet(codecVec) = 0 => DOMAIN decoded.props = {"dx", "dy"}

\* C12, witness: a vector with down and up both set has been decoded to a
\* stroke with pen "down".
C12_Witness ==
  /\ decoded # Undefined
  /\ codecVec[3] = Num(1)
  /\ codecVec[4] = Num(1)
  /\ Prop(decoded, "pen") = Str("down")

\* C13: encoding the decoding of a vector with at most one flag set gives
\* the vector back, and decoding the encoding of a stroke whose pen is down,
\* up, end or absent gives the stroke back.
C13_CodecRoundTrip ==
  /\ (reEncoded # Undefined /\ FlagsSet(codecVec) <= 1) => reEncoded = codecVec
  /\ reDecoded # Undefined => reDecoded = codecStroke

\* C13, witness: both round trips have been made, from a vector with the up
\* flag alone and from a stroke with pen "end".
C13_Witness ==
  /\ reEncoded # Undefined
  /\ codecVec = reEncoded
  /\ codecVec[3] = Num(0)
  /\ codecVec[4] = Num(1)
  /\ codecVec[5] = Num(0)
  /\ reDecoded = codecStroke
  /\ Prop(codecStroke, "pen") = Str("end")

MaxPoseCalls == 1

\* DEFAULTS.minConfidence, in hundredths.
DefaultMinConfidence == 50

\* An HTMLImageElement ("img") or HTMLVideoElement ("video").
Element(tag, readyState) == [t |-> "element", tag |-> tag, readyState |-> readyState]

ImageElement == Element("img", 4)

\* x instanceof HTMLImageElement || x instanceof HTMLVideoElement
IsMediaElement(x) == x.t = "element" /\ x.tag \in {"img", "video"}

\* The value posenet.load resolves with.
LoadedNet == [t |-> "net"]

\* The pose objects an estimation may yield.
PoseP1 ==
  [score |-> 90,
   keypoints |-> << [part |-> "nose", score |-> 95, position |-> [x |-> 10, y |-> 20]] >>]
PoseP2 ==
  [score |-> 40,
   keypoints |-> << [part |-> "nose", score |-> 30, position |-> [x |-> 7, y |-> 8]],
                    [part |-> "leftEye", score |-> 20, position |-> [x |-> 5, y |-> 6]] >>]

\* this.net.estimateSinglePose(...) resolves with one pose.
EstimateSingleSpace == {PoseP1, PoseP2}

\* this.net.estimateMultiplePoses(...) resolves with a list of poses.
EstimateMultipleSpace == {<< >>, <<PoseP2, PoseP1>>}

EstimateSpace(kind) ==
  IF kind = "single" THEN EstimateSingleSpace ELSE EstimateMultipleSpace

\* skeleton(keypoints): posenet.getAdjacentKeyPoints, left uninterpreted.
Skeleton(keypoints, confidence) ==
  [t |-> "adjacentKeyPoints", keypoints |-> keypoints, confidence |-> confidence]

\* mapParts(pose): a copy of pose with one extra field per keypoint part;
\* a later keypoint of the same part overwrites an earlier one.
MapParts(pose) ==
  LET kps == pose.keypoints
      parts == {kps[i].part : i \in DOMAIN kps}
      last(k) == CHOOSE i \in DOMAIN kps :
                   /\ kps[i].part = k
                   /\ \A j \in DOMAIN kps : j > i => kps[j].part # k
  IN [k \in (DOMAIN pose) \cup parts |->
        IF k \in parts
        THEN [x |-> kps[last(k)].position.x,
              y |-> kps[last(k)].position.y,
              confidence |-> kps[last(k)].score]
        ELSE pose[k]]

\* singlePose: result = [{ pose: poseWithParts, skeleton }]
SingleResult(pose) ==
  Arr(<< [pose |-> MapParts(pose),
          skeleton |-> Skeleton(pose.keypoints, DefaultMinConfidence)] >>)

\* multiPose: result = posesWithParts.map(pose => ({ pose, skeleton }))
MultiResult(poses) ==
  Arr([k \in DOMAIN poses |->
         [pose |-> MapParts(poses[k]),
          skeleton |-> Skeleton(MapParts(poses[k]).keypoints, DefaultMinConfidence)]])

ResultOf(kind, estimate) ==
  IF kind = "single" THEN SingleResult(estimate) ELSE MultiResult(estimate)

\* The input an estimation runs on, from the first argument and this.video.
ResolveInput(inputOr, video) ==
  IF IsMediaElement(inputOr) THEN inputOr
  ELSE IF inputOr.t = "object" /\ IsMediaElement(Prop(inputOr, "elt"))
       THEN Prop(inputOr, "elt")
       ELSE video

\* The (inputOr, cb) pairs the caller passes to singlePose / multiPose.
PoseCallArgs ==
  { <<ImageElement, Fn>>,
    <<Obj([elt |-> ImageElement]), Undefined>>,
    <<Fn, Undefined>> }

\* The videos and detection types a PoseNet is constructed with.
PoseVideos == {Undefined, Element("video", 0), Element("video", 4)}
DetectionTypeArgs == {Undefined, Str("single"), Str("multiple")}

\* What an invocation did once its estimation completed, in order.
Emitted(result) == [op |-> "emit", value |-> result]
CalledBack(result) == [op |-> "callback", value |-> result]
Returned(result) == [op |-> "return", value |-> result]
Scheduled == [op |-> "nextFrame", value |-> Undefined]

\* An invocation of singlePose / multiPose up to its await (origin: who
\* started the chain it belongs to; onFrame: made by a frame callback): the input is
\* resolved, and reading this.net.estimate... throws while this.net is unset.
NewEstimation(kind, origin, onFrame, inputOr, cb, video, network) ==
  [kind |-> kind,
   origin |-> origin,
   onFrame |-> onFrame,
   input |-> ResolveInput(inputOr, video),
   cb |-> cb,
   pc |-> IF network = Undefined THEN "failed" ELSE "estimating",
   result |-> Undefined,
   log |-> << >>]

\* The invocations load() makes once the video has data: singlePose() for
\* 'single', and then multiPose() in every case.
StartedByLoad(type) ==
  IF type = Str("single") THEN <<"single", "multiple">> ELSE <<"multiple">>

\* Variant: the callback is invoked before this.video is looked at.
AfterEmit_CallbackFirst(video, cb, result) ==
  LET called == IF cb.t = "function" THEN <<CalledBack(result)>> ELSE << >>
  IN IF Truthy(video)
     THEN [pc |-> "waitFrame", log |-> called \o <<Scheduled>>]
     ELSE [pc |-> "returned", log |-> called \o <<Returned(result)>>]

\* What singlePose / multiPose do after this.emit('pose', result).
AfterEmit(video, cb, result) ==
  IF Truthy(video)
  THEN [pc |-> "waitFrame", log |-> <<Scheduled>>]
  ELSE [pc |-> "returned",
        log |-> (IF cb.t = "function" THEN <<CalledBack(result)>> ELSE << >>)
                \o <<Returned(result)>>]

PoseFrame == UNCHANGED <<sessionVars, other, codecVars>>

EstimationIds == 1..Len(estimations)

\* The part of load() after the video is known to have data.
StartLoops ==
  /\ estimations' = estimations \o
       [i \in 1..Len(StartedByLoad(detectionType)) |->
          NewEstimation(StartedByLoad(detectionType)[i], "load", FALSE,
                        Undefined, Undefined, poseVideo', net')]
  /\ loadPc' = "done"
  /\ poseReady' = CallCallback("resolved")

\* posenet.load resolves: load() runs on up to its next await or its return.
NetLoads ==
  /\ loadPc = "loadingNet"
  /\ net' = LoadedNet
  /\ UNCHANGED <<poseVideo, detectionType>>
  /\ IF Truthy(poseVideo)
     THEN IF poseVideo.readyState = 0
          THEN /\ loadPc' = "awaitVideoData"
               /\ UNCHANGED <<poseReady, estimations>>
          ELSE StartLoops
     ELSE /\ loadPc' = "done"
          /\ poseReady' = CallCallback("resolved")
          /\ UNCHANGED estimations
  /\ PoseFrame

\* posenet.load rejects: load() rejects and this.ready with it.
NetLoadFails ==
  /\ loadPc = "loadingNet"
  /\ loadPc' = "failed"
  /\ poseReady' = CallCallback("rejected")
  /\ UNCHANGED <<poseVideo, detectionType, net, estimations>>
  /\ PoseFrame

\* The video gets its first frame of data; a load() waiting for it goes on.
VideoDataLoaded ==
  /\ Truthy(poseVideo)
  /\ poseVideo.readyState = 0
  /\ poseVideo' = [poseVideo EXCEPT !.readyState = 2]
  /\ UNCHANGED <<detectionType, net>>
  /\ IF loadPc = "awaitVideoData"
     THEN StartLoops
     ELSE UNCHANGED <<loadPc, poseReady, estimations>>
  /\ PoseFrame

DirectCalls == {k \in EstimationIds : estimations[k].origin = "caller"}

\* The caller invokes singlePose(inputOr, cb) or multiPose(inputOr, cb).
CallPose(kind, inputOr, cb) ==
  /\ Cardinality(DirectCalls) < MaxPoseCalls
  /\ estimations' = Append(estimations,
       NewEstimation(kind, "caller", FALSE, inputOr, cb, poseVideo, net))
  /\ UNCHANGED <<poseVideo, detectionType, net, loadPc, poseReady>>
  /\ PoseFrame

CallSinglePose(inputOr, cb) == CallPose("single", inputOr, cb)

CallMultiPose(inputOr, cb) == CallPose("multiple", inputOr, cb)

\* The awaited estimation resolves: the invocation runs on to its return.
EstimateCompletes(k, estimate) ==
  /\ estimations[k].pc = "estimating"
  /\ estimations[k].input # Undefined
  /\ LET result == ResultOf(estimations[k].kind, estimate)
         after == AfterEmit(poseVideo, estimations[k].cb, result)
     IN estimations' = [estimations EXCEPT
          ![k].result = result,
          ![k].log = <<Emitted(result)>> \o after.log,
          ![k].pc = after.pc]
  /\ UNCHANGED <<poseVideo, detectionType, net, loadPc, poseReady>>
  /\ PoseFrame

\* The awaited estimation rejects (always so without an input).
EstimateFails(k) ==
  /\ estimations[k].pc = "estimating"
  /\ estimations' = [estimations EXCEPT ![k].pc = "failed"]
  /\ UNCHANGED <<poseVideo, detectionType, net, loadPc, poseReady>>
  /\ PoseFrame

\* tf.nextFrame() resolves: () => this.singlePose() / this.multiPose() runs.
NextFrame(k) ==
  /\ estimations[k].pc = "waitFrame"
  /\ estimations' = [estimations EXCEPT ![k] =
       NewEstimation(@.kind, @.origin, TRUE, Undefined, Undefined, poseVideo, net)]
  /\ UNCHANGED <<poseVideo, detectionType, net, loadPc, poseReady>>
  /\ PoseFrame

\* new PoseNet(video, {}, detectionType): the state the constructor leaves.
PoseInit ==
  /\ SessionInit
  /\ other = NewSession
  /\ CodecIdle
  /\ poseVideo \in PoseVideos
  /\ \E type \in DetectionTypeArgs : detectionType = OrElse(type, Str("multiple"))
  /\ net = Undefined
  /\ loadPc = "loadingNet"
  /\ poseReady = "pending"
  /\ estimations = << >>

PoseNext ==
  \/ NetLoads
  \/ NetLoadFails
  \/ VideoDataLoaded
  \/ \E a \in PoseCallArgs : CallSinglePose(a[1], a[2])
  \/ \E a \in PoseCallArgs : CallMultiPose(a[1], a[2])
  \/ \E k \in EstimationIds :
       \E estimate \in EstimateSpace(estimations[k].kind) : EstimateCompletes(k, estimate)
  \/ \E k \in EstimationIds : EstimateFails(k)
  \/ \E k \in EstimationIds : NextFrame(k)

PoseSpec == PoseInit /\ [][PoseNext]_vars

\* The loops that load() started.
LoopIds == {k \in EstimationIds : estimations[k].origin = "load"}

(***************************************************************************)
(* C16: on a PoseNet constructed with a video, detectionType selects the   *)
(* estimation that runs once loading completes: every estimation the       *)
(* instance starts by itself is of the kind detectionType names, so one    *)
(* kind of per-frame loop is active.                                       *)
(***************************************************************************)
C16_OneLoopKind ==
  Truthy(poseVideo) =>
    \A k \in LoopIds : Str(estimations[k].kind) = detectionType

(***************************************************************************)
(* C18: a completed estimation has emitted one 'pose' event with its       *)
(* result before anything else; without a video the callback passed to    *)
(* the call is then invoked once with that result and the call returns    *)
(* it; with a video the callback is not invoked, the next estimation is   *)
(* scheduled for the next frame, and on that frame an estimation of the   *)
(* same kind on the video starts again.                                   *)
(***************************************************************************)
C18_Completed(e) ==
  /\ e.pc \in {"estimating", "failed"} => e.log = << >> /\ e.result = Undefined
  /\ e.pc = "waitFrame" =>
       /\ Truthy(poseVideo)
       /\ e.log = <<Emitted(e.result), Scheduled>>
  /\ e.pc = "returned" =>
       /\ ~Truthy(poseVideo)
       /\ e.log = <<Emitted(e.result)>>
                  \o (IF e.cb = Fn THEN <<CalledBack(e.result)>> ELSE << >>)
                  \o <<Returned(e.result)>>
  /\ e.pc \in {"waitFrame", "returned"} => e.result # Undefined

C18_Rescheduled(k) ==
  (estimations[k].pc = "waitFrame" /\ estimations'[k] # estimations[k]) =>
    /\ estimations'[k].pc = "estimating"
    /\ estimations'[k].kind = estimations[k].kind
    /\ estimations'[k].onFrame
    /\ estimations'[k].input = poseVideo
    /\ estimations'[k].cb = Undefined
    /\ estimations'[k].log = << >>

C18_EmitThenCallbackOrLoop ==
  [][/\ \A k \in EstimationIds : C18_Completed(estimations[k])
     /\ \A k \in EstimationIds : C18_Rescheduled(k)
     /\ \A k \in EstimationIds : estimations[k].pc = "waitFrame" => ENABLED NextFrame(k)]_vars

C18_Witness ==
  \E k, l \in EstimationIds :
    /\ estimations[k].origin = "caller"
    /\ estimations[k].cb = Fn
    /\ estimations[k].pc = "waitFrame"
    /\ estimations[l].origin = "load"
    /\ estimations[l].onFrame
    /\ estimations[l].pc = "waitFrame"

====
